---- MODULE Spec2Model ----
(***************************************************************************)
(* Model of src/app.py: the hybrid retrieval function search_and_retrieve  *)
(* (embedding call, match_documents_hybrid RPC, facet filter and parent    *)
(* de-duplication loop) and the Streamlit chat turn that calls it, builds  *)
(* the context block, streams the generated answer and appends it to       *)
(* st.session_state.messages.                                              *)
(*                                                                         *)
(* Text is modelled as a sequence of tokens (words / fragments), string    *)
(* concatenation as sequence concatenation.  Similarity scores are integer *)
(* percentages.  The fields parent_metadata and parent_url are copied      *)
(* verbatim by the code and read by nothing modelled here; they are left   *)
(* out of the records.                                                     *)
(***************************************************************************)
EXTENDS Integers, Sequences, FiniteSets, TLC

(* ---------------------------- bounds ----------------------------------- *)
MaxCand == 3       \* longest candidate list the gateway returns
NumDocs == 3       \* parent documents in the corpus
MaxLimit == 3      \* largest num_results passed to a direct call
MaxSlider == 3     \* largest slider position explored (slider goes to 8)
MaxMsgs == 3       \* a question is accepted while the history is shorter
MaxFrags == 1      \* non-empty fragments a stream delivers at most
WordBudget == 3    \* the word budget B of the truncation policy, scaled

(* ------------------------ program constants ---------------------------- *)
SliderMin == 2
SliderMax == 8
SliderDefault == 5
DefaultNumResults == 7

ALL_SOURCES == "All Sources"
ALL_TYPES == "All Types"
SEARCH_ERROR == "Search error"
NO_SOURCES == "No relevant sources found"
TURN_ERROR == "Error"
MARKER == "[... content truncated ...]"

(* ----------------------------- corpus ---------------------------------- *)
ParentIds == 1..NumDocs
Authors == {"A", "B"}
Types == {"video", "book"}

AuthorOfDoc(id) == IF id % 2 = 1 THEN "A" ELSE "B"
TypeOfDoc(id) == IF id <= 1 THEN "video" ELSE "book"
TitleOfDoc(id) == <<"title", id>>
\* the full text of parent document id: 2*id words
ContentOfDoc(id) == [w \in 1..(2 * id) |-> "w"]

\* get_authors / get_source_types: the select-box option lists
AuthorOptions == {ALL_SOURCES} \cup Authors
TypeOptions == {ALL_TYPES} \cup Types
SliderValues == {n \in SliderMin..SliderMax : n <= MaxSlider}
\* the slider's default position, within the explored positions
ClampSlider(n) == IF n > MaxSlider THEN MaxSlider ELSE n
LimitValues == 0..MaxLimit

\* similarity of the chunk at rank i (descending with rank)
SimAt(i) == 100 - 10 * i

\* one row of match_documents_hybrid: a chunk with its parent's fields
CandidateOf(i, id, au, ty) ==
    [parent_id |-> id, parent_title |-> TitleOfDoc(id),
     parent_content |-> ContentOfDoc(id), parent_type |-> ty,
     parent_author |-> au, chunk_content |-> <<"chunk", i>>,
     similarity |-> SimAt(i)]

\* rows whose parent fields are those of the corpus document
CorpusResults ==
    UNION { { [i \in 1..n |-> CandidateOf(i, ids[i], AuthorOfDoc(ids[i]), TypeOfDoc(ids[i]))]
              : ids \in [1..n -> ParentIds] } : n \in 0..MaxCand }

\* rows with any parent author: chunks of one parent may differ in the
\* author they carry, so a rejected chunk can precede an accepted chunk of
\* the same parent
AnyResults ==
    UNION { { [i \in 1..n |-> CandidateOf(i, f[i][1], f[i][2], TypeOfDoc(f[i][1]))]
              : f \in [1..n -> ParentIds \X Authors] } : n \in 0..MaxCand }

(* ---------------------- search_and_retrieve ---------------------------- *)
AlreadySeen_Never(result, seen_ids) == FALSE

AlreadySeen(result, seen_ids) == result.parent_id \in seen_ids

PassesAuthor(result, author_filter) ==
    ~(author_filter # ALL_SOURCES /\ result.parent_author # author_filter)

PassesType_Ignored(result, source_type_filter) == TRUE

PassesType(result, source_type_filter) ==
    ~(source_type_filter # ALL_TYPES /\ result.parent_type # source_type_filter)

MakeSource(result) ==
    [id |-> result.parent_id, title |-> result.parent_title,
     content |-> result.parent_content, type |-> result.parent_type,
     author |-> result.parent_author, matched_chunk |-> result.chunk_content,
     similarity |-> result.similarity]

AppendDoc_Front(filtered_docs, doc) == <<doc>> \o filtered_docs

AppendDoc(filtered_docs, doc) == Append(filtered_docs, doc)

ReachedLimit_Never(filtered_docs, num) == FALSE

ReachedLimit_OffByOne(filtered_docs, num) == Len(filtered_docs) > num

ReachedLimit(filtered_docs, num) == Len(filtered_docs) >= num

RECURSIVE FilterLoop(_, _, _, _, _, _, _)
FilterLoop(data, i, filtered_docs, seen_ids, af, tf, num) ==
    IF i > Len(data) THEN filtered_docs
    ELSE LET result == data[i] IN
      IF AlreadySeen(result, seen_ids)
        THEN FilterLoop(data, i + 1, filtered_docs, seen_ids, af, tf, num)
      ELSE IF ~PassesAuthor(result, af)
        THEN FilterLoop(data, i + 1, filtered_docs, seen_ids, af, tf, num)
      ELSE IF ~PassesType(result, tf)
        THEN FilterLoop(data, i + 1, filtered_docs, seen_ids, af, tf, num)
      ELSE LET docs2 == AppendDoc(filtered_docs, MakeSource(result))
               seen2 == seen_ids \cup {result.parent_id}
           IN IF ReachedLimit(docs2, num) THEN docs2
              ELSE FilterLoop(data, i + 1, docs2, seen2, af, tf, num)

\* the value returned when the RPC delivered data
FilteredDocs(data, af, tf, num) ==
    IF data = <<>> THEN <<>> ELSE FilterLoop(data, 1, <<>>, {}, af, tf, num)

(* --------------------------- context block ----------------------------- *)
HeadWords(n) == (8 * n) \div 10
TailWords(n) == (2 * n) \div 10

ContextPart_Truncated(i, source) ==
    [index |-> i, title |-> source.title, author |-> source.author,
     body |-> IF Len(source.content) > WordBudget
              THEN SubSeq(source.content, 1, HeadWords(WordBudget)) \o <<MARKER>>
                   \o SubSeq(source.content,
                             Len(source.content) - TailWords(WordBudget) + 1,
                             Len(source.content))
              ELSE source.content]

\* "=== SOURCE i: title by author ===\n\ncontent\n\n"
ContextPart(i, source) ==
    [index |-> i, title |-> source.title, author |-> source.author,
     body |-> source.content]

\* "\n".join(context_parts)
BuildContext(srcs) == [i \in 1..Len(srcs) |-> ContextPart(i, srcs[i])]

(* ------------------------------ state ---------------------------------- *)
VARIABLES
    messages,            \* st.session_state.messages
    selected_author,     \* select box "Filter by Author"
    selected_type,       \* select box "Filter by Source Type"
    num_sources,         \* slider "Number of sources"
    pc,                  \* position of the script run
    prompt,              \* the submitted question
    author_filter,       \* arguments of the current call of
    source_type_filter,  \*   search_and_retrieve
    num_results,
    results_data,        \* results.data, until the caller acts on the return value
    sources,             \* value returned by search_and_retrieve
    full_context,        \* assembled context block
    full_response,       \* text accumulated from the stream (placeholder)
    errors,              \* st.error messages on screen
    gen_called           \* openai.chat.completions.create was called

vars == <<messages, selected_author, selected_type, num_sources, pc, prompt,
          author_filter, source_type_filter, num_results, results_data,
          sources, full_context, full_response, errors, gen_called>>

widgets == <<selected_author, selected_type, num_sources>>
args == <<author_filter, source_type_filter, num_results>>

Prompts == {<<"q">>}
Fragments == {<<>>, <<"t">>}

UserEntry(p) == [role |-> "user", content |-> p]
AssistantEntry(r) == [role |-> "assistant", content |-> r]

\* a script run starts with an empty page and fresh locals
FreshRun ==
    /\ results_data' = <<>>
    /\ sources' = <<>>
    /\ full_context' = <<>>
    /\ full_response' = <<>>
    /\ errors' = {}
    /\ gen_called' = FALSE

Init ==
    /\ messages = <<>>
    /\ selected_author = ALL_SOURCES
    /\ selected_type = ALL_TYPES
    /\ num_sources = ClampSlider(SliderDefault)
    /\ pc = "idle"
    /\ prompt = <<>>
    /\ author_filter = ALL_SOURCES
    /\ source_type_filter = ALL_TYPES
    /\ num_results = DefaultNumResults
    /\ results_data = <<>>
    /\ sources = <<>>
    /\ full_context = <<>>
    /\ full_response = <<>>
    /\ errors = {}
    /\ gen_called = FALSE

\* a direct call of search_and_retrieve with arbitrary arguments
InitCall ==
    /\ messages = <<>>
    /\ selected_author = ALL_SOURCES
    /\ selected_type = ALL_TYPES
    /\ num_sources = ClampSlider(SliderDefault)
    /\ pc = "embed"
    /\ prompt \in Prompts
    /\ author_filter \in AuthorOptions
    /\ source_type_filter \in TypeOptions
    /\ num_results \in LimitValues
    /\ results_data = <<>>
    /\ sources = <<>>
    /\ full_context = <<>>
    /\ full_response = <<>>
    /\ errors = {}
    /\ gen_called = FALSE

(* ------------------------- settings column ----------------------------- *)
SelectAuthor ==
    /\ pc = "idle"
    /\ \E a \in AuthorOptions : a # selected_author /\ selected_author' = a
    /\ FreshRun
    /\ UNCHANGED <<messages, selected_type, num_sources, pc, prompt, args>>

SelectType ==
    /\ pc = "idle"
    /\ \E t \in TypeOptions : t # selected_type /\ selected_type' = t
    /\ FreshRun
    /\ UNCHANGED <<messages, selected_author, num_sources, pc, prompt, args>>

SlideNumSources ==
    /\ pc = "idle"
    /\ \E n \in SliderValues : n # num_sources /\ num_sources' = n
    /\ FreshRun
    /\ UNCHANGED <<messages, selected_author, selected_type, pc, prompt, args>>

ClearChat ==
    /\ pc = "idle"
    /\ messages # <<>>
    /\ messages' = <<>>
    /\ FreshRun
    /\ UNCHANGED <<widgets, pc, prompt, args>>

(* ---------------------------- chat turn -------------------------------- *)
\* st.chat_input delivers a question: the user entry is appended and
\* search_and_retrieve is called with the widget values
ChatInput ==
    /\ pc = "idle"
    /\ Len(messages) < MaxMsgs
    /\ \E p \in Prompts :
         /\ prompt' = p
         /\ messages' = Append(messages, UserEntry(p))
    /\ author_filter' = selected_author
    /\ source_type_filter' = selected_type
    /\ num_results' = num_sources
    /\ pc' = "embed"
    /\ FreshRun
    /\ UNCHANGED widgets

\* except Exception in search_and_retrieve: st.error, return []
SearchFailed ==
    /\ errors' = errors \cup {SEARCH_ERROR}
    /\ sources' = <<>>
    /\ pc' = "returned"

EmbeddingsCreateOk ==
    /\ pc = "embed"
    /\ pc' = "rpc"
    /\ UNCHANGED <<messages, widgets, prompt, args, results_data, sources,
                   full_context, full_response, errors, gen_called>>

EmbeddingsCreateFail ==
    /\ pc = "embed"
    /\ SearchFailed
    /\ UNCHANGED <<messages, widgets, prompt, args, results_data,
                   full_context, full_response, gen_called>>

\* the RPC answers with rows; the loop filters them and the function returns
RpcExecuteOk(Rows) ==
    /\ pc = "rpc"
    /\ \E data \in Rows :
         /\ results_data' = data
         /\ sources' = FilteredDocs(data, author_filter, source_type_filter, num_results)
    /\ pc' = "returned"
    /\ UNCHANGED <<messages, widgets, prompt, args, full_context,
                   full_response, errors, gen_called>>

RpcExecuteFail ==
    /\ pc = "rpc"
    /\ SearchFailed
    /\ UNCHANGED <<messages, widgets, prompt, args, results_data,
                   full_context, full_response, gen_called>>

NoSources_Fallback ==
    /\ pc = "returned"
    /\ sources = <<>>
    /\ IF results_data = <<>>
         THEN /\ errors' = errors \cup {NO_SOURCES}
              /\ pc' = "idle"
              /\ sources' = sources
         ELSE /\ sources' = [i \in 1..(IF Len(results_data) < 3 THEN Len(results_data) ELSE 3)
                               |-> MakeSource(results_data[i])]
              /\ pc' = "returned"
              /\ errors' = errors
    /\ results_data' = <<>>
    /\ UNCHANGED <<messages, widgets, prompt, args,
                   full_context, full_response, gen_called>>

\* if not sources: st.error(...); st.stop()
NoSources ==
    /\ pc = "returned"
    /\ sources = <<>>
    /\ errors' = errors \cup {NO_SOURCES}
    /\ pc' = "idle"
    /\ results_data' = <<>>
    /\ UNCHANGED <<messages, widgets, prompt, args, sources,
                   full_context, full_response, gen_called>>

\* context assembly and the call that opens the stream
ChatCompletionsCreateOk ==
    /\ pc = "returned"
    /\ sources # <<>>
    /\ full_context' = BuildContext(sources)
    /\ gen_called' = TRUE
    /\ pc' = "stream"
    /\ results_data' = <<>>
    /\ UNCHANGED <<messages, widgets, prompt, args, sources,
                   full_response, errors>>

\* the call raises: except Exception in the turn handler
ChatCompletionsCreateFail ==
    /\ pc = "returned"
    /\ sources # <<>>
    /\ full_context' = BuildContext(sources)
    /\ gen_called' = TRUE
    /\ errors' = errors \cup {TURN_ERROR}
    /\ pc' = "idle"
    /\ results_data' = <<>>
    /\ UNCHANGED <<messages, widgets, prompt, args, sources,
                   full_response>>

\* one chunk of the stream; a chunk without content is skipped
StreamChunk ==
    /\ pc = "stream"
    /\ Len(full_response) < MaxFrags
    /\ \E frag \in Fragments :
         full_response' = IF frag # <<>> THEN full_response \o frag ELSE full_response
    /\ UNCHANGED <<messages, widgets, pc, prompt, args, results_data, sources,
                   full_context, errors, gen_called>>

StreamFail_KeepPartial ==
    /\ pc = "stream"
    /\ errors' = errors \cup {TURN_ERROR}
    /\ messages' = Append(messages, AssistantEntry(full_response))
    /\ pc' = "idle"
    /\ UNCHANGED <<widgets, prompt, args, results_data, sources,
                   full_context, full_response, gen_called>>

\* the stream raises while it is being read
StreamFail ==
    /\ pc = "stream"
    /\ errors' = errors \cup {TURN_ERROR}
    /\ pc' = "idle"
    /\ UNCHANGED <<messages, widgets, prompt, args, results_data, sources,
                   full_context, full_response, gen_called>>

StreamEnd_Replace ==
    /\ pc = "stream"
    /\ messages' = <<AssistantEntry(full_response)>>
    /\ pc' = "idle"
    /\ UNCHANGED <<widgets, prompt, args, results_data, sources,
                   full_context, full_response, errors, gen_called>>

\* the stream is exhausted: the answer is appended to the history
StreamEnd ==
    /\ pc = "stream"
    /\ messages' = Append(messages, AssistantEntry(full_response))
    /\ pc' = "idle"
    /\ UNCHANGED <<widgets, prompt, args, results_data, sources,
                   full_context, full_response, errors, gen_called>>

Next ==
    \/ SelectAuthor
    \/ SelectType
    \/ SlideNumSources
    \/ ClearChat
    \/ ChatInput
    \/ EmbeddingsCreateOk
    \/ EmbeddingsCreateFail
    \/ RpcExecuteOk(CorpusResults)
    \/ RpcExecuteFail
    \/ NoSources
    \/ ChatCompletionsCreateOk
    \/ ChatCompletionsCreateFail
    \/ StreamChunk
    \/ StreamFail
    \/ StreamEnd

Spec == Init /\ [][Next]_vars

\* search_and_retrieve called on its own, rows of any shape
NextCall ==
    \/ EmbeddingsCreateOk
    \/ EmbeddingsCreateFail
    \/ RpcExecuteOk(AnyResults)
    \/ RpcExecuteFail

SpecCall == InitCall /\ [][NextCall]_vars

(* ------------------------- helper operators ---------------------------- *)
IsPrefix(s, t) == Len(s) <= Len(t) /\ SubSeq(t, 1, Len(s)) = s
SourceIds == {sources[k].id : k \in 1..Len(sources)}
Returned == pc = "returned"

\* the facet predicates, written out on row i of results.data
AuthorOk(i) == author_filter = ALL_SOURCES \/ results_data[i].parent_author = author_filter
TypeOk(i) == source_type_filter = ALL_TYPES \/ results_data[i].parent_type = source_type_filter
FacetOk(i) == AuthorOk(i) /\ TypeOk(i)

\* source k is built from row i
BuiltFrom(k, i) ==
    /\ sources[k].id = results_data[i].parent_id
    /\ sources[k].title = results_data[i].parent_title
    /\ sources[k].content = results_data[i].parent_content
    /\ sources[k].type = results_data[i].parent_type
    /\ sources[k].author = results_data[i].parent_author
    /\ sources[k].matched_chunk = results_data[i].chunk_content
    /\ sources[k].similarity = results_data[i].similarity

(* ------------------------------ C1 ------------------------------------- *)
\* C1: the list returned by search_and_retrieve never holds two Sources
\* with the same id, whatever the rows, the facets and num_results.
C1_UniqueIds ==
    \A k1, k2 \in 1..Len(sources) : k1 # k2 => sources[k1].id # sources[k2].id

\* two facet-passing chunks of one parent precede a row of another parent
\* that was accepted: the loop walked over the repeated parent
C1_Witness ==
    /\ Returned
    /\ Len(results_data) = 3
    /\ results_data[1].parent_id = results_data[2].parent_id
    /\ FacetOk(1) /\ FacetOk(2)
    /\ Len(sources) = 2
    /\ sources[2].id = results_data[3].parent_id

(* ------------------------------ C2 ------------------------------------- *)
\* C2: the returned Sources are built from a subsequence of the rows: some
\* strictly increasing choice of row indices yields exactly the output.
C2_Subsequence ==
    \E f \in [1..Len(sources) -> 1..Len(results_data)] :
        /\ \A k1, k2 \in 1..Len(sources) : k1 < k2 => f[k1] < f[k2]
        /\ \A k \in 1..Len(sources) : BuiltFrom(k, f[k])

\* two Sources returned, with a removed row between the rows they came from
C2_Witness ==
    /\ Returned
    /\ Len(results_data) = 3
    /\ Len(sources) = 2
    /\ BuiltFrom(1, 1) /\ BuiltFrom(2, 3)

C4_Facets ==
    /\ \A k \in 1..Len(sources) :
         /\ author_filter # ALL_SOURCES => sources[k].author = author_filter
         /\ source_type_filter # ALL_TYPES => sources[k].type = source_type_filter
    /\ (Returned /\ author_filter = ALL_SOURCES /\ Len(sources) < num_results)
         => \A i \in 1..Len(results_data) :
                TypeOk(i) => results_data[i].parent_id \in SourceIds
    /\ (Returned /\ source_type_filter = ALL_TYPES /\ Len(sources) < num_results)
         => \A i \in 1..Len(results_data) :
                AuthorOk(i) => results_data[i].parent_id \in SourceIds

\* one active facet rejected a row, the other is "any", and a row was accepted
C4_Witness ==
    /\ Returned
    /\ author_filter = ALL_SOURCES
    /\ source_type_filter # ALL_TYPES
    /\ sources # <<>>
    /\ Len(sources) < num_results
    /\ \E i \in 1..Len(results_data) : ~TypeOk(i)

(* ------------------------------ C10 ------------------------------------ *)
\* row i is the first facet-passing row of its parent
FirstOfParent(i) ==
    /\ FacetOk(i)
    /\ \A j \in 1..(i - 1) :
         ~(FacetOk(j) /\ results_data[j].parent_id = results_data[i].parent_id)
KeptRows ==
    SelectSeq([i \in 1..Len(results_data) |-> i], LAMBDA i : FirstOfParent(i))

\* C10: for a limit of at least 1 the returned list is exactly the first
\* `limit` elements of the rows kept as first facet-passing row of their
\* parent, in rank order, each Source carrying that row's fields.
C10_GreedyComplete ==
    (Returned /\ num_results >= 1) =>
        /\ Len(sources) = (IF Len(KeptRows) < num_results THEN Len(KeptRows) ELSE num_results)
        /\ \A k \in 1..Len(sources) : BuiltFrom(k, KeptRows[k])

\* a rejected chunk of a parent precedes an accepted chunk of the same parent
C10_Witness ==
    /\ Returned
    /\ num_results >= 1
    /\ Len(sources) < num_results
    /\ \E i, j \in 1..Len(results_data) :
         /\ i < j
         /\ results_data[i].parent_id = results_data[j].parent_id
         /\ ~FacetOk(i) /\ FacetOk(j)
         /\ \E k \in 1..Len(sources) : BuiltFrom(k, j)

(* ------------------------------ C5 ------------------------------------- *)
LastIsUser == messages # <<>> /\ messages[Len(messages)].role = "user"

\* C5: when search_and_retrieve hands back no Source the turn reports "No
\* relevant sources found" and stops: the handler's except branch is not
\* taken, the Source list stays empty, the generation service is not called
\* and the history still ends with the user's question.
C5_EmptyHalts ==
    /\ [](NO_SOURCES \in errors =>
            /\ pc = "idle"
            /\ sources = <<>>
            /\ full_context = <<>>
            /\ ~gen_called
            /\ TURN_ERROR \notin errors
            /\ LastIsUser)
    /\ [][(Returned /\ sources = <<>>) =>
            /\ pc' = "idle"
            /\ NO_SOURCES \in errors'
            /\ sources' = <<>>
            /\ messages' = messages]_vars

\* the search succeeded under an active author facet, no Source survived
\* and the turn has reported it
C5_Witness ==
    /\ NO_SOURCES \in errors
    /\ SEARCH_ERROR \notin errors
    /\ author_filter # ALL_SOURCES
    /\ pc = "idle"

(* ------------------------------ C6 ------------------------------------- *)
FailureShown == SEARCH_ERROR \in errors \/ TURN_ERROR \in errors

\* C6: a failed embedding, search or generation call puts an error message
\* on the page and leaves the history as it was: while the message is shown
\* the turn has ended (or is about to end with an empty Source list) and the
\* history ends with the user's question, never with the partial answer.
C6_FailureNoEntry ==
    /\ [](FailureShown =>
            /\ pc \in {"idle", "returned"}
            /\ (Returned => sources = <<>>)
            /\ LastIsUser)
    /\ [][(FailureShown' /\ ~FailureShown) => messages' = messages]_vars

\* the stream failed after fragments had been accumulated
C6_Witness ==
    /\ pc = "idle"
    /\ TURN_ERROR \in errors
    /\ full_response # <<>>
    /\ LastIsUser

(* ------------------------------ C7 ------------------------------------- *)
\* C7: a backend failure reaches the caller as an outcome distinct from "no
\* matches": the value returned after a failure is not the empty list a
\* successful search with zero survivors returns, and "No relevant sources
\* found" is reported only when the search succeeded.
C7_FailureDistinct ==
    /\ (Returned /\ SEARCH_ERROR \in errors) => sources # <<>>
    /\ NO_SOURCES \in errors => SEARCH_ERROR \notin errors

(* ------------------------------ C8 ------------------------------------- *)
MarkerCount(body) == Cardinality({i \in DOMAIN body : body[i] = MARKER})

\* C8 as stated: a Source with more than B words contributes at most
\* 0.8B + 0.2B words plus exactly one truncation marker, a Source with at
\* most B words contributes its content unchanged.
C8_Truncated ==
    gen_called =>
        /\ Len(full_context) = Len(sources)
        /\ \A k \in 1..Len(sources) :
             IF Len(sources[k].content) > WordBudget
               THEN /\ MarkerCount(full_context[k].body) = 1
                    /\ Len(full_context[k].body) - 1
                         <= HeadWords(WordBudget) + TailWords(WordBudget)
               ELSE full_context[k].body = sources[k].content

\* C8 amended: every Source contributes the full content of its parent
\* document unchanged, whatever its word count; no truncation marker is
\* ever inserted.
C8_FullContent ==
    gen_called =>
        /\ Len(full_context) = Len(sources)
        /\ \A k \in 1..Len(sources) :
             /\ full_context[k].index = k
             /\ full_context[k].body = sources[k].content
             /\ sources[k].content = ContentOfDoc(sources[k].id)
             /\ MarkerCount(full_context[k].body) = 0

\* a context block was assembled from a Source longer than the budget
C8_Witness ==
    /\ gen_called
    /\ \E k \in 1..Len(sources) :
         /\ Len(sources[k].content) > WordBudget
         /\ Len(full_context[k].body) > WordBudget

(* ------------------------------ C9 ------------------------------------- *)
\* C9 as stated: every step leaves the earlier history as a prefix of the
\* later one.
C9_AppendOnly == [][IsPrefix(messages, messages')]_vars

\* C9 amended: every step other than the Clear Chat button leaves the
\* earlier history as a prefix of the later one; Clear Chat empties it.
C9_AppendOnlyButClear ==
    [][IsPrefix(messages, messages') \/ (ClearChat /\ messages' = <<>>)]_vars

\* a history with a question and its answer, extended by a further question
C9_Witness ==
    /\ Len(messages) = 3
    /\ messages[2].role = "assistant"
    /\ messages[3].role = "user"
====
